---- MODULE Spec2Model ----
(***************************************************************************)
(* scriptTok: the Celery task generate_script_task (backend/tasks.py), the *)
(* worker units it fans out over a process pool (backend/core/workers.py), *)
(* and the Flask routes that start and poll it (backend/api/routes.py);    *)
(* one unit seen from inside, with the files it writes and removes         *)
(* (tiktok_downloader.py, audio_transcriber.py, tiktok_audio_processor.py);*)
(* the command-line program main.py; extract_script_contents alone;       *)
(* transcribe_multiple_files alone; and the as_completed loop of one task  *)
(* from inside.                                                            *)
(***************************************************************************)
EXTENDS Integers, Sequences, FiniteSets, TLC

\* ------------------------------------------------------------------ bounds
MaxJobs == 2
MaxUrls == 2
MaxLen == 4
MaxCalls == 2
MaxFiles == 3
MaxCpus == 2

\* ------------------------------------------------------------ value spaces
\* Python's None, and a value that is not None
None == [none |-> TRUE]

TaskIds == 1..MaxJobs
Urls == 1..MaxUrls

\* the argument lists a producer sends the task with: profile_name, topic,
\* gemini_api_key, apify_api_key
Submissions == {<<"p1", "t1", "g1", "a1">>,
                <<"p2", "t2", "", "a2">>,
                <<"p1", "t1", "g1", "">>}

\* the parameters of generate_script_task after self
TaskArity == 4

\* what the scrape collaborator can hand back: the first n video URLs of
\* the profile, n = 0 included
ScrapeLists == {[i \in 1..n |-> i] : n \in 0..MaxUrls}

\* how one unit of the pool can end
UnitOutcomes == {"ok", "download_error", "transcribe_error", "init_error"}

\* what model.generate_content can answer
GeminiReplies == {"wrapped", "no_parts", "blocked", "api_error"}

\* ------------------------------------------------------------- exceptions
Exc(cls, msg) == [exc |-> cls, msg |-> msg]

\* str(e)
Str(e) == e.msg

NoVideosFoundError(profile_name) ==
    Exc("NoVideosFoundError", <<"No videos found for the profile.", "Profile:", profile_name>>)

\* ---------------------------------------------------------------- workers
\* whisper's answer for the audio of a url: each video has its own words
Transcripts == <<"A", "B", "C", "D", "E">>
Transcribe(url) == [text |-> Transcripts[url]]

\* TikTokAudioProcessor.process_url with keep_audio = False: the download,
\* then the transcription; either may raise
process_url(url, outcome) ==
    IF outcome = "download_error"
    THEN [raised |-> TRUE, exc |-> Exc("TikTokTranscriberError", <<"Failed to download audio", url>>),
          value |-> None]
    ELSE IF outcome = "transcribe_error"
    THEN [raised |-> TRUE, exc |-> Exc("TikTokTranscriberError", <<"Failed to transcribe audio", url>>),
          value |-> None]
    ELSE [raised |-> FALSE, exc |-> None,
          value |-> [transcription |-> Transcribe(url), audio_file |-> None]]

\* process_video_worker without its try: what process_url raises leaves the
\* worker
process_video_worker_reraises(url, outcome) ==
    IF outcome = "init_error"
    THEN [raised |-> TRUE, exc |-> Exc("TikTokTranscriberError", <<"Failed to load Whisper model">>),
          value |-> None]
    ELSE LET r == process_url(url, outcome) IN
         IF r.raised
         THEN [raised |-> TRUE, exc |-> r.exc, value |-> None]
         ELSE [raised |-> FALSE, exc |-> None,
               value |-> [original_url |-> url, error |-> None,
                          transcription |-> r.value.transcription,
                          audio_file |-> r.value.audio_file]]

\* process_video_worker: the processor is built outside the try, the call
\* of process_url inside it
process_video_worker(url, outcome) ==
    IF outcome = "init_error"
    THEN [raised |-> TRUE, exc |-> Exc("TikTokTranscriberError", <<"Failed to load Whisper model">>),
          value |-> None]
    ELSE LET r == process_url(url, outcome) IN
         IF r.raised
         THEN [raised |-> FALSE, exc |-> None,
               value |-> [original_url |-> url, error |-> [str |-> Str(r.exc)], transcription |-> None,
                          audio_file |-> None]]
         ELSE [raised |-> FALSE, exc |-> None,
               value |-> [original_url |-> url, error |-> None,
                          transcription |-> r.value.transcription,
                          audio_file |-> r.value.audio_file]]

\* a future of the pool that has not run yet
PendingFuture == [done |-> FALSE, how |-> "pending", raised |-> FALSE, exc |-> None,
                  value |-> None]

\* a future whose unit ended the way `how` says and left `outcome`
Finished(how, outcome) == [done |-> TRUE, how |-> how, raised |-> outcome.raised,
                           exc |-> outcome.exc, value |-> outcome.value]

\* ------------------------------------------------------------------- state
VARIABLES
    pc,                 \* where each task is: unsent, queued, scrape, scraped, batch,
                        \* unwind, generate, done
    args,               \* the positional arguments each task was sent with
    backend,            \* the result backend: state and info of each task id
    urls_to_process,    \* the scraped list
    futures,            \* future_to_url: one future per submitted url
    yielded,            \* the futures as_completed has handed to the loop
    past_scripts_data,  \* the blocks collected so far
    user_input,         \* the prompt built for generate_text, empty before
    sent_prompt,        \* the prompts model.generate_content was called with
    answered,           \* what model.generate_content answered to them
    pending_exc,        \* the exception travelling out of the with block
    http,               \* the last HTTP request served and its response
    disk,               \* the files of the directory "output"
    units,              \* the calls of process_video_worker: their locals
    models,             \* the Whisper models loaded so far
    cli,                \* the run of the command-line program main.py
    generated,          \* a text handed to extract_script_contents
    applied,            \* what it returned, call after call
    multi,              \* a call of AudioTranscriber.transcribe_multiple_files
    loop                \* the batch of one task with as_completed from inside

\* the Celery application and its routes
appVars == <<pc, args, backend, urls_to_process, futures, yielded, past_scripts_data,
             user_input, sent_prompt, answered, pending_exc, http>>

\* the pool processes seen from inside, the command line, a function alone
unitVars == <<disk, units, models>>
cliVars == <<cli>>
fnVars == <<generated, applied>>
multiVars == <<multi>>
loopVars == <<loop>>
otherPrograms == <<unitVars, cliVars, fnVars, multiVars, loopVars>>

vars == <<appVars, otherPrograms>>


NoMeta == [state |-> "PENDING", info |-> None]

\* None where the code expects a str
Null == "None"

\* a call of process_video_worker that the pool has not started: no
\* processor, and the locals of download_audio and process_url unset
Submitted == [at |-> "submitted", model |-> 0, filename |-> Null, audio_path |-> None,
              heard |-> 0, transcription |-> None, exc |-> None, removal |-> "none",
              result |-> None]

\* main.py before it is started
NotRun == [at |-> "shell", args |-> None, urls_to_process |-> None, i |-> 0,
           past_scripts_data |-> <<>>, output_dir |-> {}, raised |-> None, exit |-> None]

\* transcribe_multiple_files before it is called
NotCalled == [at |-> "caller", audio_files |-> <<>>, num_processes |-> 0, args |-> <<>>,
              running |-> {}, finished |-> <<>>, outcomes |-> <<>>, results |-> None,
              raised |-> None]

\* the task before its with block: nothing submitted, and as_completed,
\* its set of finished futures and its waiter not there yet
NotSubmitted == [at |-> "task", urls_to_process |-> <<>>, futures |-> <<>>,
                 completed |-> <<>>, finished |-> {}, finished_futures |-> <<>>,
                 past_scripts_data |-> <<>>, user_input |-> <<>>, raised |-> None]

Start ==
    /\ pc = [j \in TaskIds |-> "unsent"]
    /\ args = [j \in TaskIds |-> <<>>]
    /\ backend = [j \in TaskIds |-> NoMeta]
    /\ urls_to_process = [j \in TaskIds |-> <<>>]
    /\ futures = [j \in TaskIds |-> <<>>]
    /\ yielded = [j \in TaskIds |-> {}]
    /\ past_scripts_data = [j \in TaskIds |-> <<>>]
    /\ user_input = [j \in TaskIds |-> <<>>]
    /\ sent_prompt = [j \in TaskIds |-> <<>>]
    /\ answered = [j \in TaskIds |-> <<>>]
    /\ pending_exc = [j \in TaskIds |-> None]
    /\ http = [route |-> "none", req |-> None, code |-> 0, body |-> None]
    /\ disk = {}
    /\ units = [u \in Urls |-> Submitted]
    /\ models = 0
    /\ cli = NotRun
    /\ applied = <<>>
    /\ multi = NotCalled
    /\ loop = NotSubmitted

Init == Start /\ generated = <<>>

\* update_state writes the state under every task id
update_state_every_task(j, state, status) ==
    backend' = [k \in TaskIds |-> [state |-> state, info |-> [status |-> status]]]

\* self.update_state(state, meta)
update_state(j, state, status) ==
    backend' = [backend EXCEPT ![j] = [state |-> state, info |-> [status |-> status]]]

\* the task raised: Celery stores FAILURE with the exception
mark_as_failure(j, e) ==
    backend' = [backend EXCEPT ![j] = [state |-> "FAILURE", info |-> e]]

\* the task returned: Celery stores SUCCESS with the return value
mark_as_done(j, retval) ==
    backend' = [backend EXCEPT ![j] = [state |-> "SUCCESS", info |-> retval]]

\* the lowest task id not handed out yet
FreshId == CHOOSE j \in TaskIds : pc[j] = "unsent" /\ \A k \in TaskIds : pc[k] = "unsent" => j <= k

\* generate_script_task.apply_async(a): the message goes to the broker under
\* a fresh task id
apply_async(a) ==
    /\ \E j \in TaskIds : pc[j] = "unsent"
    /\ pc' = [pc EXCEPT ![FreshId] = "queued"]
    /\ args' = [args EXCEPT ![FreshId] = a]

\* generate_script_task.delay(profile_name, topic, gemini_api_key, apify_api_key)
\* by a producer that gives all four arguments
Delay(a) ==
    /\ apply_async(a)
    /\ UNCHANGED <<backend, urls_to_process, futures, yielded, past_scripts_data,
                   user_input, sent_prompt, answered, pending_exc, http, otherPrograms>>

\* generate_script_task, from the worker picking the message up to the
\* first update_state
TaskStart(j) ==
    /\ pc[j] = "queued"
    /\ Len(args[j]) = TaskArity
    /\ update_state(j, "SCRAPING", "Scraping videos from TikTok profile...")
    /\ pc' = [pc EXCEPT ![j] = "scrape"]
    /\ UNCHANGED <<args, urls_to_process, futures, yielded, past_scripts_data,
                   user_input, sent_prompt, answered, pending_exc, http, otherPrograms>>

\* the task function is left: its arguments and locals are gone
EndFrame(j) ==
    /\ pc' = [pc EXCEPT ![j] = "done"]
    /\ args' = [args EXCEPT ![j] = <<>>]
    /\ urls_to_process' = [urls_to_process EXCEPT ![j] = <<>>]
    /\ futures' = [futures EXCEPT ![j] = <<>>]
    /\ yielded' = [yielded EXCEPT ![j] = {}]
    /\ past_scripts_data' = [past_scripts_data EXCEPT ![j] = <<>>]
    /\ user_input' = [user_input EXCEPT ![j] = <<>>]
    /\ pending_exc' = [pending_exc EXCEPT ![j] = None]

\* a task that ended by raising e
Fail(j, e) ==
    /\ mark_as_failure(j, e)
    /\ EndFrame(j)

\* the worker calls the task with fewer arguments than its signature takes
TaskCallTypeError(j) ==
    /\ pc[j] = "queued"
    /\ Len(args[j]) # TaskArity
    /\ Fail(j, Exc("TypeError", <<"generate_script_task() missing required positional arguments">>))
    /\ UNCHANGED <<sent_prompt, answered, http, otherPrograms>>

profile_name(j) == args[j][1]
topic(j) == args[j][2]
gemini_api_key(j) == args[j][3]
apify_api_key(j) == args[j][4]

\* TikTokProfileScraper(api_key = "") raises
ScrapeNoKey(j) ==
    /\ pc[j] = "scrape"
    /\ apify_api_key(j) = ""
    /\ Fail(j, Exc("TikTokTranscriberError", <<"An Apify API key is required for profile scraping.">>))
    /\ UNCHANGED <<sent_prompt, answered, http, otherPrograms>>

\* scrape_profile_videos raises: the Apify actor call failed
ScrapeError(j) ==
    /\ pc[j] = "scrape"
    /\ apify_api_key(j) # ""
    /\ Fail(j, Exc("TikTokTranscriberError", <<"Failed to scrape profile", profile_name(j)>>))
    /\ UNCHANGED <<sent_prompt, answered, http, otherPrograms>>

\* scrape_profile_videos returns its list, which may be empty
ScrapeReturn(j, urls) ==
    /\ pc[j] = "scrape"
    /\ apify_api_key(j) # ""
    /\ urls_to_process' = [urls_to_process EXCEPT ![j] = urls]
    /\ pc' = [pc EXCEPT ![j] = "scraped"]
    /\ UNCHANGED <<args, backend, futures, yielded, past_scripts_data, user_input,
                   sent_prompt, answered, pending_exc, http, otherPrograms>>

\* if not urls_to_process: raise NoVideosFoundError(profile_name)
NoVideos(j) ==
    /\ pc[j] = "scraped"
    /\ urls_to_process[j] = <<>>
    /\ Fail(j, NoVideosFoundError(profile_name(j)))
    /\ UNCHANGED <<sent_prompt, answered, http, otherPrograms>>

\* the batch is entered with whatever list the scrape gave, empty or not
SubmitBatch_any_list(j) ==
    /\ pc[j] = "scraped"
    /\ update_state(j, "ANALYZING", "Analyzing and transcribing videos...")
    /\ past_scripts_data' = [past_scripts_data EXCEPT ![j] = <<>>]
    /\ futures' = [futures EXCEPT
                     ![j] = [i \in 1..Len(urls_to_process[j]) |-> PendingFuture]]
    /\ pc' = [pc EXCEPT ![j] = "batch"]
    /\ UNCHANGED <<args, urls_to_process, yielded, user_input, sent_prompt, answered,
                   pending_exc, http, otherPrograms>>

\* the list is not empty: ANALYZING, and every url is submitted to the pool
SubmitBatch(j) ==
    /\ pc[j] = "scraped"
    /\ urls_to_process[j] # <<>>
    /\ update_state(j, "ANALYZING", "Analyzing and transcribing videos...")
    /\ past_scripts_data' = [past_scripts_data EXCEPT ![j] = <<>>]
    /\ futures' = [futures EXCEPT
                     ![j] = [i \in 1..Len(urls_to_process[j]) |-> PendingFuture]]
    /\ pc' = [pc EXCEPT ![j] = "batch"]
    /\ UNCHANGED <<args, urls_to_process, yielded, user_input, sent_prompt, answered,
                   pending_exc, http, otherPrograms>>

\* a pool process runs process_video_worker for one submitted url; the pool
\* goes on running what was submitted while the with block is being left
WorkerRun(j, i, outcome) ==
    /\ pc[j] \in {"batch", "unwind"}
    /\ i \in DOMAIN futures[j]
    /\ ~futures[j][i].done
    /\ futures' = [futures EXCEPT
                     ![j][i] = Finished(outcome, process_video_worker(urls_to_process[j][i], outcome))]
    /\ UNCHANGED <<pc, args, backend, urls_to_process, yielded, past_scripts_data,
                   user_input, sent_prompt, answered, pending_exc, http, otherPrograms>>

\* f"[PAST_SCRIPT]:\n{text}"
ScriptBlock(text) == <<"[PAST_SCRIPT]:", "\n", text>>

\* the loop reads result['transcription']['text'] without looking whether
\* there is a transcription: an error result raises TypeError in the loop
CollectResult_no_check(j, i) ==
    /\ pc[j] = "batch"
    /\ i \in DOMAIN futures[j]
    /\ i \notin yielded[j]
    /\ futures[j][i].done
    /\ ~futures[j][i].raised
    /\ yielded' = [yielded EXCEPT ![j] = @ \cup {i}]
    /\ LET result == futures[j][i].value IN
       IF result.transcription # None
       THEN /\ past_scripts_data' =
                  [past_scripts_data EXCEPT
                     ![j] = Append(@, ScriptBlock(result.transcription.text))]
            /\ UNCHANGED <<pc, pending_exc>>
       ELSE /\ pending_exc' = [pending_exc EXCEPT
                                 ![j] = Exc("TypeError", <<"'NoneType' object is not subscriptable">>)]
            /\ pc' = [pc EXCEPT ![j] = "unwind"]
            /\ UNCHANGED past_scripts_data
    /\ UNCHANGED <<args, backend, urls_to_process, futures, user_input, sent_prompt,
                   answered, http, otherPrograms>>

\* one turn of the as_completed loop whose future.result() returns
CollectResult(j, i) ==
    /\ pc[j] = "batch"
    /\ i \in DOMAIN futures[j]
    /\ i \notin yielded[j]
    /\ futures[j][i].done
    /\ ~futures[j][i].raised
    /\ yielded' = [yielded EXCEPT ![j] = @ \cup {i}]
    /\ LET result == futures[j][i].value IN
       past_scripts_data' =
          [past_scripts_data EXCEPT
             ![j] = IF result.transcription # None
                    THEN Append(@, ScriptBlock(result.transcription.text))
                    ELSE @]
    /\ UNCHANGED <<pc, args, backend, urls_to_process, futures, user_input,
                   sent_prompt, answered, pending_exc, http, otherPrograms>>

\* the loop catches what future.result() raises, stores FAILURE and goes on
CollectRaise_keeps_looping(j, i) ==
    /\ pc[j] = "batch"
    /\ i \in DOMAIN futures[j]
    /\ i \notin yielded[j]
    /\ futures[j][i].done
    /\ futures[j][i].raised
    /\ yielded' = [yielded EXCEPT ![j] = @ \cup {i}]
    /\ mark_as_failure(j, futures[j][i].exc)
    /\ UNCHANGED <<pc, args, urls_to_process, futures, past_scripts_data, user_input,
                   sent_prompt, answered, pending_exc, http, otherPrograms>>

\* one turn of the as_completed loop whose future.result() raises: nothing
\* in the loop catches it, and the with block is left
CollectRaise(j, i) ==
    /\ pc[j] = "batch"
    /\ i \in DOMAIN futures[j]
    /\ i \notin yielded[j]
    /\ futures[j][i].done
    /\ futures[j][i].raised
    /\ yielded' = [yielded EXCEPT ![j] = @ \cup {i}]
    /\ pending_exc' = [pending_exc EXCEPT ![j] = futures[j][i].exc]
    /\ pc' = [pc EXCEPT ![j] = "unwind"]
    /\ UNCHANGED <<args, backend, urls_to_process, futures, past_scripts_data,
                   user_input, sent_prompt, answered, http, otherPrograms>>

AllDone(j) == \A i \in DOMAIN futures[j] : futures[j][i].done

\* the with block is left as soon as the exception is raised, whatever
\* the pool is still running
Unwind_no_wait(j) ==
    /\ pc[j] = "unwind"
    /\ Fail(j, pending_exc[j])
    /\ UNCHANGED <<sent_prompt, answered, http, otherPrograms>>

\* ProcessPoolExecutor.__exit__ waits for every submitted unit, then the
\* exception reaches the task's except clause, which re-raises it
Unwind(j) ==
    /\ pc[j] = "unwind"
    /\ AllDone(j)
    /\ Fail(j, pending_exc[j])
    /\ UNCHANGED <<sent_prompt, answered, http, otherPrograms>>

\* "\n\n".join(blocks)
RECURSIVE Join(_)
Join(blocks) ==
    IF blocks = <<>> THEN <<>>
    ELSE IF Len(blocks) = 1 THEN blocks[1]
    ELSE blocks[1] \o <<"\n\n">> \o Join(Tail(blocks))

\* f"{final_scripts_string}\n\n[NEW_TOPIC]:\n{topic}"
UserInput(blocks, t) == Join(blocks) \o <<"\n\n", "[NEW_TOPIC]:", "\n", t>>

\* a batch that gave no transcript fails the task
BatchExit_needs_transcripts(j) ==
    /\ pc[j] = "batch"
    /\ yielded[j] = DOMAIN futures[j]
    /\ IF past_scripts_data[j] = <<>>
       THEN /\ Fail(j, Exc("TikTokTranscriberError", <<"No video could be transcribed">>))
            /\ UNCHANGED <<sent_prompt, answered, http, otherPrograms>>
       ELSE /\ update_state(j, "GENERATING", "Generating new script...")
            /\ user_input' = [user_input EXCEPT ![j] = UserInput(past_scripts_data[j], topic(j))]
            /\ pc' = [pc EXCEPT ![j] = "generate"]
            /\ UNCHANGED <<args, urls_to_process, futures, yielded, past_scripts_data,
                           sent_prompt, answered, pending_exc, http, otherPrograms>>

\* the loop is left at the first result
BatchExit_first_result(j) ==
    /\ pc[j] = "batch"
    /\ yielded[j] # {}
    /\ update_state(j, "GENERATING", "Generating new script...")
    /\ user_input' = [user_input EXCEPT ![j] = UserInput(past_scripts_data[j], topic(j))]
    /\ pc' = [pc EXCEPT ![j] = "generate"]
    /\ UNCHANGED <<args, urls_to_process, futures, yielded, past_scripts_data,
                   sent_prompt, answered, pending_exc, http, otherPrograms>>

\* the third update_state names the first stage again
BatchExit_wrong_state(j) ==
    /\ pc[j] = "batch"
    /\ yielded[j] = DOMAIN futures[j]
    /\ update_state(j, "SCRAPING", "Scraping videos from TikTok profile...")
    /\ user_input' = [user_input EXCEPT ![j] = UserInput(past_scripts_data[j], topic(j))]
    /\ pc' = [pc EXCEPT ![j] = "generate"]
    /\ UNCHANGED <<args, urls_to_process, futures, yielded, past_scripts_data,
                   sent_prompt, answered, pending_exc, http, otherPrograms>>

\* the loop has seen every future: GENERATING, and the prompt is put together
BatchExit(j) ==
    /\ pc[j] = "batch"
    /\ yielded[j] = DOMAIN futures[j]
    /\ update_state(j, "GENERATING", "Generating new script...")
    /\ user_input' = [user_input EXCEPT ![j] = UserInput(past_scripts_data[j], topic(j))]
    /\ pc' = [pc EXCEPT ![j] = "generate"]
    /\ UNCHANGED <<args, urls_to_process, futures, yielded, past_scripts_data,
                   sent_prompt, answered, pending_exc, http, otherPrograms>>

\* ------------------------------------------------------------- generation
\* the texts the generation backend answers with, as token sequences
OPEN == "<script>"
CLOSE == "</script>"
SPACE == " "

WrappedText == <<"intro", OPEN, SPACE, "script", "text", SPACE, CLOSE>>

\* str.strip()
RECURSIVE LStrip(_)
LStrip(s) == IF s # <<>> /\ Head(s) = SPACE THEN LStrip(Tail(s)) ELSE s

RECURSIVE RStrip(_)
RStrip(s) == IF s # <<>> /\ s[Len(s)] = SPACE THEN RStrip(SubSeq(s, 1, Len(s) - 1)) ELSE s

Strip(s) == RStrip(LStrip(s))

\* (.*) for (.*?): the match runs to the last closing tag
extract_script_contents_greedy(html) ==
    LET opens == {p \in DOMAIN html :
                     html[p] = OPEN /\ \E q \in DOMAIN html : q > p /\ html[q] = CLOSE}
    IN IF opens = {} THEN html
       ELSE LET p == CHOOSE x \in opens : \A y \in opens : x <= y
                q == CHOOSE x \in DOMAIN html :
                        /\ x > p /\ html[x] = CLOSE
                        /\ \A y \in DOMAIN html : (y > p /\ html[y] = CLOSE) => x >= y
            IN Strip(SubSeq(html, p + 1, q - 1))

\* re.search(r'<script[^>]*>(.*?)</script>', html): the leftmost opening tag
\* that has a closing tag after it, up to the first such closing tag
extract_script_contents(html) ==
    LET opens == {p \in DOMAIN html :
                     html[p] = OPEN /\ \E q \in DOMAIN html : q > p /\ html[q] = CLOSE}
    IN IF opens = {} THEN html
       ELSE LET p == CHOOSE x \in opens : \A y \in opens : x <= y
                q == CHOOSE x \in DOMAIN html :
                        /\ x > p /\ html[x] = CLOSE
                        /\ \A y \in DOMAIN html : (y > p /\ html[y] = CLOSE) => x <= y
            IN Strip(SubSeq(html, p + 1, q - 1))

\* a response without parts gives the empty string
generate_text_empty(reply) ==
    IF reply = "wrapped" THEN [raised |-> FALSE, exc |-> None, value |-> WrappedText]
    ELSE IF reply \in {"no_parts", "blocked"}
    THEN [raised |-> FALSE, exc |-> None, value |-> <<>>]
    ELSE [raised |-> TRUE, value |-> None,
          exc |-> Exc("GeminiError", <<"Gemini API call failed:", "api error">>)]

\* GeminiClient.generate_text for a non-empty prompt
generate_text(reply) ==
    IF reply = "wrapped" THEN [raised |-> FALSE, exc |-> None, value |-> WrappedText]
    ELSE IF reply = "no_parts"
    THEN [raised |-> FALSE, exc |-> None, value |-> <<"The model returned an empty response.">>]
    ELSE IF reply = "blocked"
    THEN [raised |-> TRUE, value |-> None,
          exc |-> Exc("GeminiError", <<"Gemini API call failed:", "Request was blocked by the API.">>)]
    ELSE [raised |-> TRUE, value |-> None,
          exc |-> Exc("GeminiError", <<"Gemini API call failed:", "api error">>)]

\* GeminiClient(api_key = "", ...) raises before anything is sent
GenerateNoKey(j) ==
    /\ pc[j] = "generate"
    /\ gemini_api_key(j) = ""
    /\ Fail(j, Exc("GeminiError", <<"A Google AI Studio API key is required for the Gemini client.">>))
    /\ UNCHANGED <<sent_prompt, answered, http, otherPrograms>>

\* the client is built, generate_text sends the prompt and raises
GenerateError(j, reply) ==
    /\ pc[j] = "generate"
    /\ gemini_api_key(j) # ""
    /\ generate_text(reply).raised
    /\ sent_prompt' = [sent_prompt EXCEPT ![j] = Append(@, user_input[j])]
    /\ answered' = [answered EXCEPT ![j] = Append(@, reply)]
    /\ Fail(j, generate_text(reply).exc)
    /\ UNCHANGED <<http, otherPrograms>>

\* the client is built, generate_text returns, the task returns its dict
GenerateOk(j, reply) ==
    /\ pc[j] = "generate"
    /\ gemini_api_key(j) # ""
    /\ ~generate_text(reply).raised
    /\ sent_prompt' = [sent_prompt EXCEPT ![j] = Append(@, user_input[j])]
    /\ answered' = [answered EXCEPT ![j] = Append(@, reply)]
    /\ mark_as_done(j, [status |-> "Success",
                        script |-> extract_script_contents(generate_text(reply).value)])
    /\ EndFrame(j)
    /\ UNCHANGED <<http, otherPrograms>>

\* ------------------------------------------------------------------ routes
\* the JSON bodies clients post: a key may be absent, a value may be empty
Bodies ==
    {[profile_name |-> "p1", topic |-> "t1", gemini_api_key |-> "g1", apify_api_key |-> "a1"],
     [topic |-> "t1", gemini_api_key |-> "g1", apify_api_key |-> "a1"],
     [profile_name |-> "p2", topic |-> "", gemini_api_key |-> "g1", apify_api_key |-> "a1"],
     [profile_name |-> "", topic |-> "t2"],
     [profile_name |-> "p2"]}

\* data.get(key)
Get(data, key) == IF key \in DOMAIN data THEN data[key] ELSE Null

\* `and` for `or`: one of the two fields is enough
Valid_either(data) ==
    Get(data, "profile_name") \notin {Null, ""} \/ Get(data, "topic") \notin {Null, ""}

\* the request passes `if not profile_name or not topic`
Valid(data) == Get(data, "profile_name") \notin {Null, ""} /\ Get(data, "topic") \notin {Null, ""}

\* POST /generate-script answered 400
GenerateScriptInvalid(data) ==
    /\ ~Valid(data)
    /\ http' = [route |-> "generate-script", req |-> data, code |-> 400,
                body |-> [error |-> "Missing profile_name or topic"]]
    /\ UNCHANGED <<pc, args, backend, urls_to_process, futures, yielded,
                   past_scripts_data, user_input, sent_prompt, answered, pending_exc,
                   otherPrograms>>

\* POST /generate-script calls delay(profile_name, topic); a Celery that
\* checks the arguments against the signature raises TypeError there, and
\* Flask answers 500
GenerateScriptTypeError(data) ==
    /\ Valid(data)
    /\ Len(<<Get(data, "profile_name"), Get(data, "topic")>>) # TaskArity
    /\ http' = [route |-> "generate-script", req |-> data, code |-> 500,
                body |-> [error |-> "TypeError"]]
    /\ UNCHANGED <<pc, args, backend, urls_to_process, futures, yielded,
                   past_scripts_data, user_input, sent_prompt, answered, pending_exc,
                   otherPrograms>>

\* POST /generate-script calls delay(profile_name, topic) on a Celery that
\* does not check the arguments: the message is sent and 202 answered
GenerateScriptSent(data) ==
    /\ Valid(data)
    /\ apply_async(<<Get(data, "profile_name"), Get(data, "topic")>>)
    /\ http' = [route |-> "generate-script", req |-> data, code |-> 202,
                body |-> [task_id |-> FreshId]]
    /\ UNCHANGED <<backend, urls_to_process, futures, yielded, past_scripts_data,
                   user_input, sent_prompt, answered, pending_exc, otherPrograms>>

\* the ids clients poll with: 0 was never handed out
PollIds == {0} \cup TaskIds

\* generate_script_task.AsyncResult(task_id): an id the backend holds
\* nothing for reads as PENDING
AsyncResult(task_id) == IF task_id \in TaskIds THEN backend[task_id] ELSE NoMeta

\* a failed task is answered like one at work
task_status_processing(task_id) ==
    LET task == AsyncResult(task_id) IN
    IF task.state = "SUCCESS"
    THEN [keys |-> {"state", "result"}, state |-> task.state, status |-> <<>>,
          result |-> task.info]
    ELSE IF task.state = "PENDING"
    THEN [keys |-> {"state", "status"}, state |-> task.state, status |-> <<"Pending...">>,
          result |-> None]
    ELSE [keys |-> {"state", "status"}, state |-> task.state, status |-> <<"Processing...">>,
          result |-> None]

\* the body GET /status/<task_id> answers with
task_status(task_id) ==
    LET task == AsyncResult(task_id) IN
    IF task.state = "SUCCESS"
    THEN [keys |-> {"state", "result"}, state |-> task.state, status |-> <<>>,
          result |-> task.info]
    ELSE IF task.state = "PENDING"
    THEN [keys |-> {"state", "status"}, state |-> task.state, status |-> <<"Pending...">>,
          result |-> None]
    ELSE IF task.state # "FAILURE"
    THEN [keys |-> {"state", "status"}, state |-> task.state, status |-> <<"Processing...">>,
          result |-> None]
    ELSE [keys |-> {"state", "status"}, state |-> task.state, status |-> Str(task.info),
          result |-> None]

\* the route forgets a result once it has been read
TaskStatus_forgets(task_id) ==
    /\ http' = [route |-> "status", req |-> [task_id |-> task_id], code |-> 200,
                body |-> task_status(task_id)]
    /\ backend' = [j \in TaskIds |->
                     IF j = task_id /\ backend[j].state \in {"SUCCESS", "FAILURE"}
                     THEN NoMeta ELSE backend[j]]
    /\ UNCHANGED <<pc, args, urls_to_process, futures, yielded, past_scripts_data,
                   user_input, sent_prompt, answered, pending_exc, otherPrograms>>

\* GET /status/<task_id>
TaskStatus(task_id) ==
    /\ http' = [route |-> "status", req |-> [task_id |-> task_id], code |-> 200,
                body |-> task_status(task_id)]
    /\ UNCHANGED <<pc, args, backend, urls_to_process, futures, yielded,
                   past_scripts_data, user_input, sent_prompt, answered, pending_exc,
                   otherPrograms>>

\* the Celery application: producers, the task, its pool
Next ==
    \/ \E a \in Submissions : Delay(a)
    \/ \E j \in TaskIds : TaskStart(j)
    \/ \E j \in TaskIds : ScrapeNoKey(j)
    \/ \E j \in TaskIds : ScrapeError(j)
    \/ \E j \in TaskIds, urls \in ScrapeLists : ScrapeReturn(j, urls)
    \/ \E j \in TaskIds : NoVideos(j)
    \/ \E j \in TaskIds : SubmitBatch(j)
    \/ \E j \in TaskIds, i \in Urls, o \in UnitOutcomes : WorkerRun(j, i, o)
    \/ \E j \in TaskIds, i \in Urls : CollectResult(j, i)
    \/ \E j \in TaskIds, i \in Urls : CollectRaise(j, i)
    \/ \E j \in TaskIds : Unwind(j)
    \/ \E j \in TaskIds : BatchExit(j)
    \/ \E j \in TaskIds : GenerateNoKey(j)
    \/ \E j \in TaskIds, r \in GeminiReplies : GenerateError(j, r)
    \/ \E j \in TaskIds, r \in GeminiReplies : GenerateOk(j, r)

Spec == Init /\ [][Next]_vars

\* the steps of the task of job j, and the run of its i-th unit
TaskStep(j) ==
    \/ TaskStart(j)
    \/ ScrapeNoKey(j)
    \/ ScrapeError(j)
    \/ \E urls \in ScrapeLists : ScrapeReturn(j, urls)
    \/ NoVideos(j)
    \/ SubmitBatch(j)
    \/ \E i \in Urls : CollectResult(j, i)
    \/ \E i \in Urls : CollectRaise(j, i)
    \/ Unwind(j)
    \/ BatchExit(j)
    \/ GenerateNoKey(j)
    \/ \E r \in GeminiReplies : GenerateError(j, r)
    \/ \E r \in GeminiReplies : GenerateOk(j, r)

UnitRun(j, i) == \E o \in UnitOutcomes : WorkerRun(j, i, o)

\* the worker goes on with a task whenever it can, every call to the
\* scraper, the pool and the generation backend returns or raises, and the
\* pool runs every unit it was given
Fairness ==
    /\ \A j \in TaskIds : WF_vars(TaskStep(j))
    /\ \A j \in TaskIds, i \in Urls : WF_vars(UnitRun(j, i))

SpecFair == Spec /\ Fairness

\* the Celery application behind the Flask routes
NextApi ==
    \/ Next
    \/ \E data \in Bodies : GenerateScriptInvalid(data)
    \/ \E data \in Bodies : GenerateScriptTypeError(data)
    \/ \E data \in Bodies : GenerateScriptSent(data)
    \/ \E j \in TaskIds : TaskCallTypeError(j)
    \/ \E id \in PollIds : TaskStatus(id)

SpecApi == Init /\ [][NextApi]_vars

\* ------------------------------------------------- the units from inside
\* the cleaned titles get_video_info reports, and the name download_audio
\* takes when get_video_info fails or the cleaned title is empty
Titles == {"clip"}
FallbackName == "tiktok_audio"
Names == Titles \cup {FallbackName}

\* os.path.join(output_dir, f"{filename}.wav"), and the partial file yt-dlp
\* writes while it downloads
WavPath(filename) == [name |-> filename, ext |-> "wav"]
PartPath(filename) == [name |-> filename, ext |-> "part"]

\* the directory: one file per path, each holding the audio of a url
Exists(path) == \E f \in disk : f.path = path
Read(path) == (CHOOSE f \in disk : f.path = path).audio
Written(path, audio) == {f \in disk : f.path # path} \cup {[path |-> path, audio |-> audio]}
Removed(path) == {f \in disk : f.path # path}

\* Path(output_dir).glob("*.wav")
WavFiles == {f.path : f \in {g \in disk : g.path.ext = "wav"}}

UnitStep(u, new) ==
    /\ units' = [units EXCEPT ![u] = new]
    /\ UNCHANGED <<appVars, cliVars, fnVars, multiVars, loopVars>>

\* every call uses the model the first call loaded
BuildProcessor_shared(u) ==
    /\ units[u].at = "submitted"
    /\ models' = IF models = 0 THEN models + 1 ELSE models
    /\ UnitStep(u, [units[u] EXCEPT !.at = "processor", !.model = models'])
    /\ UNCHANGED disk

\* TikTokAudioProcessor(model_name): a downloader and an AudioTranscriber,
\* whose _load_model loads a Whisper model of its own
BuildProcessor(u) ==
    /\ units[u].at = "submitted"
    /\ models' = models + 1
    /\ UnitStep(u, [units[u] EXCEPT !.at = "processor", !.model = models + 1])
    /\ UNCHANGED disk

\* _load_model raises: the exception leaves process_video_worker
BuildProcessorFails(u) ==
    /\ units[u].at = "submitted"
    /\ UnitStep(u, [units[u] EXCEPT
                      !.at = "returned",
                      !.result = process_video_worker(u, "init_error")])
    /\ UNCHANGED <<disk, models>>

\* download_audio up to the yt-dlp options: the file name is the cleaned
\* title, or "tiktok_audio"
ChooseFilename(u, name) ==
    /\ units[u].at = "processor"
    /\ UnitStep(u, [units[u] EXCEPT !.at = "download", !.filename = name])
    /\ UNCHANGED <<disk, models>>

\* ydl.download([url]) returns: the audio of the url is at <filename>.wav
YdlDownload(u) ==
    /\ units[u].at = "download"
    /\ disk' = Written(WavPath(units[u].filename), u)
    /\ UnitStep(u, [units[u] EXCEPT !.at = "find"])
    /\ UNCHANGED models

\* process_url goes on to transcribe the file it expected although the
\* download raised
YdlDownloadFails_transcribes(u, partial) ==
    /\ units[u].at = "download"
    /\ disk' = IF partial THEN Written(PartPath(units[u].filename), u) ELSE disk
    /\ UnitStep(u, [units[u] EXCEPT
                      !.at = "transcribe",
                      !.audio_path = WavPath(units[u].filename)])
    /\ UNCHANGED models

\* ydl.download([url]) raises, having written nothing or a part of the
\* file; download_audio raises, and process_url goes to its finally
YdlDownloadFails(u, partial) ==
    /\ units[u].at = "download"
    /\ disk' = IF partial THEN Written(PartPath(units[u].filename), u) ELSE disk
    /\ UnitStep(u, [units[u] EXCEPT
                      !.at = "finally",
                      !.exc = Exc("TikTokTranscriberError", <<"Failed to download audio", u>>)])
    /\ UNCHANGED models

\* the file at <filename>.wav if there is one, else any .wav of the directory
FindDownloaded(u, path) ==
    /\ units[u].at = "find"
    /\ IF Exists(WavPath(units[u].filename))
       THEN path = WavPath(units[u].filename)
       ELSE path \in WavFiles
    /\ UnitStep(u, [units[u] EXCEPT !.at = "transcribe", !.audio_path = path])
    /\ UNCHANGED <<disk, models>>

\* no .wav in the directory: "Downloaded audio file not found"
FindDownloadedNothing(u) ==
    /\ units[u].at = "find"
    /\ WavFiles = {}
    /\ UnitStep(u, [units[u] EXCEPT
                      !.at = "finally",
                      !.exc = Exc("TikTokTranscriberError",
                                  <<"Failed to download audio", "Downloaded audio file not found">>)])
    /\ UNCHANGED <<disk, models>>

\* transcribe: the file is gone
TranscribeMissing(u) ==
    /\ units[u].at = "transcribe"
    /\ ~Exists(units[u].audio_path)
    /\ UnitStep(u, [units[u] EXCEPT
                      !.at = "finally",
                      !.exc = Exc("TikTokTranscriberError", <<"Audio file not found">>)])
    /\ UNCHANGED <<disk, models>>

\* transcribe: the unit's model turns the audio at audio_path into text
TranscribeFile(u) ==
    /\ units[u].at = "transcribe"
    /\ Exists(units[u].audio_path)
    /\ UnitStep(u, [units[u] EXCEPT
                      !.at = "finally",
                      !.heard = Read(units[u].audio_path),
                      !.transcription = Transcribe(Read(units[u].audio_path))])
    /\ UNCHANGED <<disk, models>>

\* transcribe: model.transcribe raises
TranscribeFails(u) ==
    /\ units[u].at = "transcribe"
    /\ Exists(units[u].audio_path)
    /\ UnitStep(u, [units[u] EXCEPT
                      !.at = "finally",
                      !.heard = Read(units[u].audio_path),
                      !.exc = Exc("TikTokTranscriberError", <<"Failed to transcribe audio", u>>)])
    /\ UNCHANGED <<disk, models>>

\* the error result names no url
WorkerReturn_untagged_error(u) ==
    IF units[u].exc # None
    THEN [raised |-> FALSE, exc |-> None,
          value |-> [original_url |-> 0, error |-> [str |-> Str(units[u].exc)],
                     transcription |-> None, audio_file |-> None]]
    ELSE [raised |-> FALSE, exc |-> None,
          value |-> [original_url |-> u, error |-> None,
                     transcription |-> units[u].transcription, audio_file |-> None]]

\* what process_video_worker returns once process_url is over
WorkerReturn(u) ==
    IF units[u].exc # None
    THEN [raised |-> FALSE, exc |-> None,
          value |-> [original_url |-> u, error |-> [str |-> Str(units[u].exc)],
                     transcription |-> None, audio_file |-> None]]
    ELSE [raised |-> FALSE, exc |-> None,
          value |-> [original_url |-> u, error |-> None,
                     transcription |-> units[u].transcription, audio_file |-> None]]

\* what os.remove raises in the finally replaces the outcome of process_url
Finally_remove_raises(u, removable) ==
    /\ units[u].at = "finally"
    /\ LET path == units[u].audio_path
           there == path # None /\ Exists(path)
           left == IF there /\ ~removable
                   THEN [units[u] EXCEPT !.exc = Exc("OSError", <<"Permission denied">>)]
                   ELSE units[u]
       IN /\ disk' = IF there /\ removable THEN Removed(path) ELSE disk
          /\ UnitStep(u, [left EXCEPT
                            !.at = "returned",
                            !.removal = IF ~there THEN "none"
                                        ELSE IF removable THEN "removed" ELSE "failed",
                            !.result =
                               [raised |-> FALSE, exc |-> None,
                                value |-> [original_url |-> u,
                                           error |-> IF left.exc # None
                                                     THEN [str |-> Str(left.exc)] ELSE None,
                                           transcription |-> IF left.exc # None THEN None
                                                             ELSE left.transcription,
                                           audio_file |-> None]]])
    /\ UNCHANGED models

\* the finally of process_url with keep_audio = False, then the return or
\* the except of process_video_worker; os.remove may fail, which is logged
Finally(u, removable) ==
    /\ units[u].at = "finally"
    /\ LET path == units[u].audio_path
           there == path # None /\ Exists(path)
       IN /\ disk' = IF there /\ removable THEN Removed(path) ELSE disk
          /\ UnitStep(u, [units[u] EXCEPT
                            !.at = "returned",
                            !.removal = IF ~there THEN "none"
                                        ELSE IF removable THEN "removed" ELSE "failed",
                            !.result = WorkerReturn(u)])
    /\ UNCHANGED models

\* the pool processes of the batches that share the directory "output"
NextUnits ==
    \/ \E u \in Urls : BuildProcessor(u)
    \/ \E u \in Urls : BuildProcessorFails(u)
    \/ \E u \in Urls, name \in Names : ChooseFilename(u, name)
    \/ \E u \in Urls : YdlDownload(u)
    \/ \E u \in Urls, partial \in BOOLEAN : YdlDownloadFails(u, partial)
    \/ \E u \in Urls, path \in WavFiles : FindDownloaded(u, path)
    \/ \E u \in Urls : FindDownloadedNothing(u)
    \/ \E u \in Urls : TranscribeMissing(u)
    \/ \E u \in Urls : TranscribeFile(u)
    \/ \E u \in Urls : TranscribeFails(u)
    \/ \E u \in Urls, removable \in BOOLEAN : Finally(u, removable)

SpecUnits == Init /\ [][NextUnits]_vars

\* ------------------------------------------------------ the command line
\* main.py: the command lines, with or without the flag --keep-audio
Argv == [profile_name : {Null, "p1"}, topic : {Null, "t1"}, apify_token : {"", "a1"},
         keep_audio : BOOLEAN]

\* add_argument("--keep-audio", default="n", action="store_true"): True
\* when the flag is given, and else the default
parse_args(argv) ==
    [argv EXCEPT !.keep_audio = IF argv.keep_audio THEN [bool |-> TRUE] ELSE [str |-> "n"]]

\* the truth value Python gives a bool or a str
Truthy(v) == IF "bool" \in DOMAIN v THEN v.bool ELSE v.str # ""

\* sys.exit(status), and Ctrl-C
SystemExit(status) == [exc |-> "SystemExit", msg |-> <<status>>]
KeyboardInterrupt == Exc("KeyboardInterrupt", <<>>)

CliStep(new) ==
    /\ cli' = new
    /\ UNCHANGED <<appVars, unitVars, fnVars, multiVars, loopVars>>

\* main left by e: SystemExit passes the except clauses and gives its own
\* status, KeyboardInterrupt gives 0, TikTokTranscriberError and every
\* other Exception give 1
Exited(c, e) ==
    [c EXCEPT !.at = "exited",
              !.raised = e,
              !.exit = IF e.exc = "SystemExit" THEN e.msg[1]
                       ELSE IF e.exc = "KeyboardInterrupt" THEN 0
                       ELSE 1]

\* parse_args, and parser.error when a profile is named without a token
CliParseArgs(argv) ==
    /\ cli.at = "shell"
    /\ IF argv.profile_name # Null /\ argv.apify_token = ""
       THEN CliStep(Exited([cli EXCEPT !.args = parse_args(argv)], SystemExit(2)))
       ELSE CliStep([cli EXCEPT !.at = "scrape", !.args = parse_args(argv)])

\* TikTokProfileScraper(api_key = "") raises
CliScrapeNoKey ==
    /\ cli.at = "scrape"
    /\ cli.args.apify_token = ""
    /\ CliStep(Exited(cli, Exc("TikTokTranscriberError",
                               <<"An Apify API key is required for profile scraping.">>)))

\* scrape_profile_videos raises
CliScrapeError ==
    /\ cli.at = "scrape"
    /\ cli.args.apify_token # ""
    /\ CliStep(Exited(cli, Exc("TikTokTranscriberError", <<"Failed to scrape profile">>)))

\* scrape_profile_videos returns an empty list: "Could not find any videos
\* to process. Exiting." and sys.exit(0)
CliNoVideos ==
    /\ cli.at = "scrape"
    /\ cli.args.apify_token # ""
    /\ CliStep(Exited([cli EXCEPT !.urls_to_process = <<>>], SystemExit(0)))

\* scrape_profile_videos returns a list with videos, and the topic is read
CliScrapeReturn(urls) ==
    /\ cli.at = "scrape"
    /\ cli.args.apify_token # ""
    /\ urls # <<>>
    /\ CliStep([cli EXCEPT !.at = "processor", !.urls_to_process = urls])

\* TikTokAudioProcessor(model_name = args.model)
CliBuildProcessor ==
    /\ cli.at = "processor"
    /\ CliStep([cli EXCEPT !.at = "loop", !.i = 1])

\* the Whisper model does not load
CliBuildProcessorFails ==
    /\ cli.at = "processor"
    /\ CliStep(Exited(cli, Exc("TikTokTranscriberError", <<"Failed to load Whisper model">>)))

\* f"[PAST_SCRIPT_{i}]:\n{transcription_result}"
NumberedBlock(i, transcription_result) == <<"[PAST_SCRIPT_", i, "]:", "\n", transcription_result>>

\* one turn of the for loop: process_url on the i-th url, in this process,
\* with the keep_audio of the command line; its finally removes the audio
\* it downloaded if keep_audio is false (os.remove succeeding); what it
\* raises ends main
CliProcessUrl(outcome) ==
    /\ cli.at = "loop"
    /\ LET video_url == cli.urls_to_process[cli.i]
           r == process_url(video_url, outcome)
           downloaded == IF outcome = "download_error" THEN {} ELSE {video_url}
           left == IF Truthy(cli.args.keep_audio) THEN cli.output_dir \cup downloaded
                   ELSE cli.output_dir \ downloaded
       IN IF r.raised
          THEN CliStep(Exited([cli EXCEPT !.output_dir = left], r.exc))
          ELSE CliStep([cli EXCEPT
                          !.past_scripts_data =
                              Append(@, NumberedBlock(cli.i, r.value.transcription)),
                          !.output_dir = left,
                          !.i = @ + 1,
                          !.at = IF cli.i = Len(cli.urls_to_process) THEN "generate" ELSE "loop"])

\* generate_text returns and its text is printed: main returns
CliGenerateOk(reply) ==
    /\ cli.at = "generate"
    /\ ~generate_text(reply).raised
    /\ CliStep([cli EXCEPT !.at = "exited", !.exit = 0])

\* generate_text raises GeminiError
CliGenerateError(reply) ==
    /\ cli.at = "generate"
    /\ generate_text(reply).raised
    /\ CliStep(Exited(cli, generate_text(reply).exc))

\* Ctrl-C while main is at work
CliInterrupt ==
    /\ cli.at \in {"scrape", "processor", "loop", "generate"}
    /\ CliStep(Exited(cli, KeyboardInterrupt))

NextCli ==
    \/ \E argv \in Argv : CliParseArgs(argv)
    \/ CliScrapeNoKey
    \/ CliScrapeError
    \/ CliNoVideos
    \/ \E urls \in ScrapeLists : CliScrapeReturn(urls)
    \/ CliBuildProcessor
    \/ CliBuildProcessorFails
    \/ \E o \in UnitOutcomes \ {"init_error"} : CliProcessUrl(o)
    \/ \E r \in GeminiReplies : CliGenerateOk(r)
    \/ \E r \in GeminiReplies : CliGenerateError(r)
    \/ CliInterrupt

SpecCli == Init /\ [][NextCli]_vars

\* --------------------------------------------- extract_script_contents alone
\* the texts of at most MaxLen tokens
Tokens == {OPEN, CLOSE, SPACE, "x"}
Texts == UNION {[1..n -> Tokens] : n \in 0..MaxLen}

\* extract_script_contents is called on the text, then on what it returned
ExtractCall ==
    /\ Len(applied) < MaxCalls
    /\ applied' = Append(applied,
                         extract_script_contents(IF applied = <<>> THEN generated
                                                 ELSE applied[Len(applied)]))
    /\ UNCHANGED <<generated, appVars, unitVars, cliVars, multiVars, loopVars>>

InitExtract == Start /\ generated \in Texts

NextExtract == ExtractCall

SpecExtract == InitExtract /\ [][NextExtract]_vars

\* ------------------------------------------- transcribe_multiple_files alone
\* the audio files a caller may name, and the lists of them
AudioFiles == {"a.wav", "b.wav"}
FileLists == UNION {[1..n -> AudioFiles] : n \in 0..MaxFiles}

\* num_processes as the caller gives it: None or a number of processes
NumProcesses == {None} \cup {[int |-> n] : n \in 1..MaxCpus}

\* what the Whisper model makes of a file
Heard(audio_path) == [text |-> <<"words of", audio_path>>]

\* transcribe_worker without its try: what Whisper raises leaves the worker
transcribe_worker_raises(a, ok) ==
    IF ok
    THEN [raised |-> FALSE, exc |-> None,
          value |-> [audio_path |-> a.audio_path, result |-> Heard(a.audio_path),
                     status |-> "success"]]
    ELSE [raised |-> TRUE, exc |-> Exc("RuntimeError", <<"whisper failed">>), value |-> None]

\* transcribe_worker(args): the model is loaded and the file transcribed in
\* the pool process; whatever is raised there becomes an error entry
transcribe_worker(a, ok) ==
    IF ok
    THEN [raised |-> FALSE, exc |-> None,
          value |-> [audio_path |-> a.audio_path, result |-> Heard(a.audio_path),
                     status |-> "success"]]
    ELSE [raised |-> FALSE, exc |-> None,
          value |-> [audio_path |-> a.audio_path, result |-> None, status |-> "error",
                     error |-> Str(Exc("RuntimeError", <<"whisper failed">>))]]

MultiStep(new) ==
    /\ multi' = new
    /\ UNCHANGED <<appVars, unitVars, cliVars, fnVars, loopVars>>

\* transcribe_multiple_files(audio_files, num_processes = ...) on a machine
\* of cpu_count processors, up to the pool: mp.Pool(processes = 0) raises
\* ValueError
MultiCall(audio_files, num_processes, cpu_count) ==
    /\ multi.at = "caller"
    /\ LET n == IF num_processes = None
                THEN IF cpu_count < Len(audio_files) THEN cpu_count ELSE Len(audio_files)
                ELSE num_processes.int
           called == [multi EXCEPT
                        !.audio_files = audio_files,
                        !.num_processes = n,
                        !.args = [i \in DOMAIN audio_files |-> [audio_path |-> audio_files[i]]],
                        !.outcomes = [i \in DOMAIN audio_files |-> None]]
       IN IF n < 1
          THEN MultiStep([called EXCEPT
                            !.at = "raised",
                            !.raised = Exc("ValueError", <<"Number of processes must be at least 1">>)])
          ELSE MultiStep([called EXCEPT !.at = "pool"])

\* the tasks of pool.map no pool process has taken yet
Waiting == {i \in DOMAIN multi.args :
               i \notin multi.running /\ multi.outcomes[i] = None}

\* a free pool process takes the next task of the queue
MultiWorkerStart(i) ==
    /\ multi.at = "pool"
    /\ i \in Waiting
    /\ \A k \in Waiting : i <= k
    /\ Cardinality(multi.running) < multi.num_processes
    /\ MultiStep([multi EXCEPT !.running = @ \cup {i}])

\* a pool process ends transcribe_worker on its task
MultiWorkerEnd(i, ok) ==
    /\ multi.at = "pool"
    /\ i \in multi.running
    /\ MultiStep([multi EXCEPT
                     !.running = @ \ {i},
                     !.finished = Append(@, i),
                     !.outcomes[i] = transcribe_worker(multi.args[i], ok)])

\* pool.map returns the workers' values in the order of args, or raises
\* what a worker raised; transcribe_multiple_files returns the list
MultiReturn ==
    /\ multi.at = "pool"
    /\ Len(multi.finished) = Len(multi.args)
    /\ IF \E i \in DOMAIN multi.outcomes : multi.outcomes[i].raised
       THEN LET i == CHOOSE k \in DOMAIN multi.outcomes :
                        /\ multi.outcomes[k].raised
                        /\ \A m \in 1..(k - 1) : ~multi.outcomes[m].raised
            IN MultiStep([multi EXCEPT !.at = "raised", !.raised = multi.outcomes[i].exc])
       ELSE MultiStep([multi EXCEPT
                         !.at = "returned",
                         !.results = [i \in DOMAIN multi.outcomes |-> multi.outcomes[i].value]])

NextMulti ==
    \/ \E audio_files \in FileLists, num_processes \in NumProcesses, cpu_count \in 1..MaxCpus :
          MultiCall(audio_files, num_processes, cpu_count)
    \/ \E i \in 1..MaxFiles : MultiWorkerStart(i)
    \/ \E i \in 1..MaxFiles, ok \in BOOLEAN : MultiWorkerEnd(i, ok)
    \/ MultiReturn

SpecMulti == Init /\ [][NextMulti]_vars

\* ------------------------------------------- the as_completed loop from inside
\* the topic of the task whose batch is followed
LoopTopic == "t1"

LoopStep(new) ==
    /\ loop' = new
    /\ UNCHANGED <<appVars, unitVars, cliVars, fnVars, multiVars>>

\* every url of the scraped list is submitted to the pool
LoopSubmit(urls) ==
    /\ loop.at = "task"
    /\ urls # <<>>
    /\ LoopStep([loop EXCEPT
                    !.at = "pool",
                    !.urls_to_process = urls,
                    !.futures = [i \in DOMAIN urls |-> PendingFuture]])

\* a pool process ends process_video_worker for the i-th url, before or
\* after as_completed is entered; once it is entered its waiter notes the
\* future behind those that ended earlier
LoopWorkerRun(i, outcome) ==
    /\ loop.at \in {"pool", "loop"}
    /\ i \in DOMAIN loop.futures
    /\ ~loop.futures[i].done
    /\ LoopStep([loop EXCEPT
                    !.futures[i] = Finished(outcome,
                                            process_video_worker(loop.urls_to_process[i], outcome)),
                    !.completed = Append(@, i),
                    !.finished_futures = IF loop.at = "loop" THEN Append(@, i) ELSE @])

\* as_completed(future_to_url) is entered: the futures that have ended by
\* now are gathered in a set
LoopAsCompleted ==
    /\ loop.at = "pool"
    /\ LoopStep([loop EXCEPT
                    !.at = "loop",
                    !.finished = {i \in DOMAIN loop.futures : loop.futures[i].done}])

\* the future as_completed hands out next: any of the set it gathered when
\* it was entered, in the order that set happens to have, and when none of
\* them is left the one its waiter noted first
LoopYieldable ==
    IF loop.finished # {} THEN loop.finished
    ELSE IF loop.finished_futures # <<>> THEN {Head(loop.finished_futures)}
    ELSE {}

\* one turn of the loop: future.result() returns and the transcription, if
\* there is one, is appended, or raises and the loop is left
LoopCollect(i) ==
    /\ loop.at = "loop"
    /\ i \in LoopYieldable
    /\ LET handed == [loop EXCEPT
                         !.finished = @ \ {i},
                         !.finished_futures = IF loop.finished # {} THEN @ ELSE Tail(@)]
           future == loop.futures[i]
       IN IF future.raised
          THEN LoopStep([handed EXCEPT !.at = "raised", !.raised = future.exc])
          ELSE LoopStep([handed EXCEPT
                           !.past_scripts_data =
                               IF future.value.transcription # None
                               THEN Append(@, ScriptBlock(future.value.transcription.text))
                               ELSE @])

\* every future has been handed out: the prompt is put together
LoopExit ==
    /\ loop.at = "loop"
    /\ \A i \in DOMAIN loop.futures : loop.futures[i].done
    /\ loop.finished = {}
    /\ loop.finished_futures = <<>>
    /\ LoopStep([loop EXCEPT
                    !.at = "generate",
                    !.user_input = UserInput(loop.past_scripts_data, LoopTopic)])

NextLoop ==
    \/ \E urls \in ScrapeLists : LoopSubmit(urls)
    \/ \E i \in Urls, o \in UnitOutcomes : LoopWorkerRun(i, o)
    \/ LoopAsCompleted
    \/ \E i \in Urls : LoopCollect(i)
    \/ LoopExit

SpecLoop == Init /\ [][NextLoop]_vars

\* ------------------------------------------------------------------ claims
Terminal == {"SUCCESS", "FAILURE"}

\* the place of a state in PENDING, SCRAPING, ANALYZING, GENERATING, terminal
Rank(state) ==
    CASE state = "PENDING" -> 0
      [] state = "SCRAPING" -> 1
      [] state = "ANALYZING" -> 2
      [] state = "GENERATING" -> 3
      [] state \in Terminal -> 4

\* C1: the state of a job, in the backend and as GET /status reports it, is
\* PENDING until the task starts and never moves to an earlier place of
\* PENDING, SCRAPING, ANALYZING, GENERATING, {SUCCESS | FAILURE}; two
\* different states are never at the same place
C1_ForwardOnly ==
    [][\A j \in TaskIds :
          /\ pc[j] \in {"unsent", "queued"} => backend[j].state = "PENDING"
          /\ Rank(backend'[j].state) >= Rank(backend[j].state)
          /\ Rank(backend'[j].state) = Rank(backend[j].state)
                => backend'[j].state = backend[j].state
          /\ task_status(j).state = backend[j].state
          /\ Rank(task_status(j).state') >= Rank(task_status(j).state)]_vars

\* a job went through every stage to SUCCESS while another ended in FAILURE
C1_Witness ==
    \E j, k \in TaskIds : backend[j].state = "SUCCESS" /\ backend[k].state = "FAILURE"

\* C2: once a job is in SUCCESS or FAILURE, no step of any task, pool
\* process or route changes its state or its info (result or error)
C2_TerminalFrozen ==
    [][\A j \in TaskIds : backend[j].state \in Terminal => backend'[j] = backend[j]]_vars

\* one job is terminal while the other is still collecting its batch
C2_Witness ==
    \E j, k \in TaskIds :
        /\ backend[j].state \in Terminal
        /\ pc[k] = "batch" /\ yielded[k] # {}

\* the units of job j that ended the way `hows` names
UnitsThat(j, hows) == {i \in DOMAIN futures[j] : futures[j][i].how \in hows}

\* the futures whose result the loop of job j has obtained
ResultsOf(j) == {i \in yielded[j] : ~futures[j][i].raised}

\* a result that says the unit failed
IsErrorResult(r) == r.error # None /\ r.transcription = None

\* C3: a unit that fails download or transcription leaves an error result
\* carrying its url, a unit that succeeds a transcription; the loop is only
\* left early by a unit that did not fail that way; and when the loop of a
\* batch of N urls whose units all succeeded or failed download or
\* transcription is over, it has obtained N results, one per url, of
\* which exactly the K failed units' are error results
C3_AllResults ==
    \A j \in TaskIds :
        LET N == Len(urls_to_process[j])
            failed == UnitsThat(j, {"download_error", "transcribe_error"})
        IN
        /\ \A i \in DOMAIN futures[j] :
              /\ futures[j][i].how \in {"download_error", "transcribe_error"}
                    => /\ ~futures[j][i].raised
                       /\ IsErrorResult(futures[j][i].value)
                       /\ futures[j][i].value.original_url = urls_to_process[j][i]
              /\ futures[j][i].how = "ok"
                    => /\ ~futures[j][i].raised
                       /\ ~IsErrorResult(futures[j][i].value)
                       /\ futures[j][i].value.original_url = urls_to_process[j][i]
        /\ pc[j] = "unwind" => UnitsThat(j, {"init_error"}) # {}
        /\ (pc[j] = "generate" /\ UnitsThat(j, {"init_error"}) = {})
              => /\ ResultsOf(j) = 1..N
                 /\ {i \in ResultsOf(j) : IsErrorResult(futures[j][i].value)} = failed

\* the loop of a batch of two is over, one unit failed its download
C3_Witness ==
    \E j \in TaskIds :
        /\ pc[j] = "generate"
        /\ Len(urls_to_process[j]) = 2
        /\ Cardinality(UnitsThat(j, {"download_error"})) = 1
        /\ Cardinality(UnitsThat(j, {"ok"})) = 1

\* C4 as claimed: a unit whose execution raises (the processor cannot be
\* built in the worker) is turned into an error result by the loop, which
\* goes on collecting the siblings; the exception does not leave the loop
C4_UnexpectedErrorAbsorbed ==
    \A j \in TaskIds :
        \A i \in yielded[j] :
            futures[j][i].how = "init_error"
               => /\ pc[j] \in {"batch", "generate"}
                  /\ pending_exc[j] = None

\* every submitted unit of job j has run to its end
Settled(j) ==
    /\ urls_to_process[j] # <<>>
    /\ DOMAIN futures[j] = 1..Len(urls_to_process[j])
    /\ \A i \in DOMAIN futures[j] : futures[j][i].done

\* C5: a job is in GENERATING only with every unit it submitted settled,
\* the generation backend is only called then, a unit that has been
\* submitted is never taken back, and the task is only left once every
\* submitted unit has run
C5_BatchSettledFirst ==
    [][\A j \in TaskIds :
          /\ backend'[j].state = "GENERATING" => Settled(j)'
          /\ sent_prompt'[j] # sent_prompt[j] => Settled(j)
          /\ \A i \in DOMAIN futures[j] :
                \/ i \in DOMAIN futures'[j] /\ (futures[j][i].done => futures'[j][i] = futures[j][i])
                \/ pc'[j] = "done" /\ Settled(j)]_vars

\* a job is in GENERATING after one unit failed its transcription and its
\* sibling succeeded
C5_Witness ==
    \E j \in TaskIds :
        /\ backend[j].state = "GENERATING"
        /\ UnitsThat(j, {"transcribe_error"}) # {}
        /\ UnitsThat(j, {"ok"}) # {}

\* the transcripts a list of blocks holds
TextsIn(blocks) == {blocks[k][3] : k \in DOMAIN blocks}

\* C6: a job whose scrape gave urls never goes from ANALYZING to FAILURE
\* because units failed download or transcription: it goes to GENERATING
\* with exactly the transcripts of the units that succeeded, one block
\* each, and from GENERATING it fails only by a generation error
C6_PartialFailureAbsorbed ==
    [][\A j \in TaskIds :
          /\ (backend[j].state = "ANALYZING" /\ backend'[j].state = "FAILURE")
                => UnitsThat(j, {"init_error"}) # {}
          /\ (backend[j].state = "ANALYZING" /\ backend'[j].state = "GENERATING")
                => /\ Len(past_scripts_data[j]) = Cardinality(UnitsThat(j, {"ok"}))
                   /\ TextsIn(past_scripts_data[j])
                         = {Transcribe(urls_to_process[j][i]).text : i \in UnitsThat(j, {"ok"})}
                   /\ user_input'[j] = UserInput(past_scripts_data[j], topic(j))
          /\ (backend[j].state = "GENERATING" /\ backend'[j].state = "FAILURE")
                => backend'[j].info.exc = "GeminiError"
          /\ (backend[j].state = "GENERATING" /\ backend'[j].state # "GENERATING")
                => backend'[j].state \in Terminal]_vars

\* a job reached SUCCESS on a prompt that holds the transcript of the
\* second url alone: the unit of the first url had failed
C6_Witness ==
    \E j \in TaskIds :
        /\ backend[j].state = "SUCCESS"
        /\ sent_prompt[j] = <<UserInput(<<ScriptBlock(Transcribe(2).text)>>, "t1")>>

\* the tags [PAST_SCRIPT_1]: .. [PAST_SCRIPT_5]:
NumberedTags == <<"[PAST_SCRIPT_1]:", "[PAST_SCRIPT_2]:", "[PAST_SCRIPT_3]:",
                  "[PAST_SCRIPT_4]:", "[PAST_SCRIPT_5]:">>

\* the tags of a prompt, in order: the tokens that are followed by a line
\* break and stand before the [NEW_TOPIC]: tag
RECURSIVE TagsOf(_)
TagsOf(prompt) ==
    IF prompt = <<>> \/ Head(prompt) = "[NEW_TOPIC]:" THEN <<>>
    ELSE IF Len(prompt) >= 2 /\ prompt[2] = "\n" THEN <<Head(prompt)>> \o TagsOf(Tail(prompt))
    ELSE TagsOf(Tail(prompt))

\* C7 as claimed: the prompt tags the S successful transcripts
\* [PAST_SCRIPT_1] .. [PAST_SCRIPT_S], in order of inclusion
C7_ConsecutiveTags ==
    \A j \in TaskIds :
        pc[j] = "generate"
           => TagsOf(user_input[j])
                 = [k \in 1..Cardinality(UnitsThat(j, {"ok"})) |-> NumberedTags[k]]

\* C8: a scrape that returns no url ends the job, from SCRAPING, in FAILURE
\* with the NoVideosFoundError that names the profile; nothing was
\* submitted to the pool and nothing sent to the generation backend; and a
\* job is in ANALYZING or GENERATING only with a scraped list that is not
\* empty
C8_NoVideosFails ==
    [][\A j \in TaskIds :
          /\ (pc[j] = "scraped" /\ urls_to_process[j] = <<>> /\ pc'[j] # pc[j])
                => /\ backend[j].state = "SCRAPING"
                   /\ backend'[j] = [state |-> "FAILURE",
                                     info |-> NoVideosFoundError(profile_name(j))]
                   /\ futures[j] = <<>> /\ futures'[j] = <<>>
                   /\ sent_prompt'[j] = <<>>
          /\ backend'[j].state \in {"ANALYZING", "GENERATING"} => urls_to_process'[j] # <<>>
          /\ futures'[j] # <<>> => urls_to_process'[j] # <<>>]_vars

\* a job failed for want of videos of profile p2 while the other job is
\* analyzing
C8_Witness ==
    \E j, k \in TaskIds :
        /\ backend[j] = [state |-> "FAILURE", info |-> NoVideosFoundError("p2")]
        /\ backend[k].state = "ANALYZING"

\* a field of a posted body that is missing or empty
Absent(req, key) == key \notin DOMAIN req \/ req[key] = ""

\* C9: a POST /generate-script whose profile_name or topic is absent or
\* empty is answered 400 with an error body, and hands out no task id and
\* changes no task: nothing is sent, started or stored
C9_InvalidRejected ==
    [][(http' # http /\ http'.route = "generate-script"
          /\ (Absent(http'.req, "profile_name") \/ Absent(http'.req, "topic")))
          => /\ http'.code = 400
             /\ DOMAIN http'.body = {"error"}
             /\ UNCHANGED <<pc, args, backend, urls_to_process, futures>>]_vars

\* a request without profile_name was answered 400 while a task was queued
C9_Witness ==
    /\ http.route = "generate-script"
    /\ "profile_name" \notin DOMAIN http.req
    /\ http.code = 400
    /\ \E j \in TaskIds : pc[j] = "queued"

\* C10 as claimed: a POST /generate-script with profile_name, topic and
\* credentials is answered 202 with the id of a task that was sent with
\* that profile_name, that topic and those credentials
C10_ValidDispatched ==
    [][(http' # http /\ http'.route = "generate-script"
          /\ ~Absent(http'.req, "profile_name") /\ ~Absent(http'.req, "topic"))
          => /\ http'.code = 202
             /\ pc'[http'.body.task_id] = "queued"
             /\ args'[http'.body.task_id]
                   = <<http'.req.profile_name, http'.req.topic,
                       http'.req.gemini_api_key, http'.req.apify_api_key>>]_vars

\* C11 as claimed: a GET /status with an id that no submit has handed out
\* is answered with an unknown-job error, never with 200 and the snapshot
\* of a job state
C11_UnknownJobRejected ==
    (/\ http.route = "status"
     /\ (http.req.task_id \notin TaskIds \/ pc[http.req.task_id] = "unsent"))
        => http.code # 200

\* C12: a GET /status changes nothing of any task; two successive polls of
\* one job that find it in the same state are answered identically; and a
\* poll that finds a job terminal answers what the backend holds for it,
\* which no later step changes
C12_PollReadOnly ==
    [][/\ (http' # http /\ http'.route = "status")
             => UNCHANGED <<pc, args, backend, urls_to_process, futures, yielded,
                            past_scripts_data, user_input, sent_prompt, pending_exc>>
       /\ (/\ http.route = "status" /\ http'.route = "status"
           /\ http'.req = http.req
           /\ http'.body.state = http.body.state)
             => http' = http
       /\ (/\ http'.route = "status"
           /\ http'.req.task_id \in TaskIds
           /\ http'.body.state \in Terminal)
             => LET meta == backend'[http'.req.task_id] IN
                /\ http'.body.state = meta.state
                /\ meta.state = "SUCCESS" => http'.body.result = meta.info
                /\ meta.state = "FAILURE" => http'.body.status = meta.info.msg]_vars

\* a finished job was polled while the other job is still generating
C12_Witness ==
    /\ http.route = "status"
    /\ http.req.task_id \in TaskIds
    /\ http.body.state = "SUCCESS"
    /\ \E k \in TaskIds : pc[k] = "generate"

\* C13 as claimed: with keep_audio = False, once every unit of the batch
\* has returned and no deletion was refused, nothing the units downloaded
\* is left in the directory, whatever way each unit ended
C13_NoFileRemains ==
    (\A u \in Urls : units[u].at = "returned" /\ units[u].removal # "failed")
        => disk = {}

\* C14 as claimed: the audio a unit transcribes is the audio of its own
\* url, the file it picked up is the one it downloaded to, and no unit
\* finds its file taken away by another
C14_PrivateFiles ==
    \A u \in Urls :
        /\ units[u].heard # 0 => units[u].heard = u
        /\ units[u].audio_path # None => units[u].audio_path = WavPath(units[u].filename)
        /\ units[u].exc # None => units[u].exc.msg # <<"Audio file not found">>

\* C15 as claimed: when generate_content answers without parts, blocked
\* or not, the job ends in SUCCESS with an empty script
C15_SuppressionIsEmptySuccess ==
    [][\A j \in TaskIds :
          (/\ Len(answered'[j]) > Len(answered[j])
           /\ answered'[j][Len(answered'[j])] \in {"no_parts", "blocked"})
             => /\ backend'[j].state = "SUCCESS"
                /\ backend'[j].info.script = <<>>]_vars

\* C15 amended: a response without parts and without a block reason ends
\* the job in SUCCESS with the sentence "The model returned an empty
\* response." as script; one with a block reason ends it in FAILURE with a
\* GeminiError
C15_SuppressionOutcome ==
    [][\A j \in TaskIds :
          Len(answered'[j]) > Len(answered[j])
             => /\ answered'[j][Len(answered'[j])] = "no_parts"
                   => /\ backend'[j].state = "SUCCESS"
                      /\ backend'[j].info.script = <<"The model returned an empty response.">>
                /\ answered'[j][Len(answered'[j])] = "blocked"
                   => /\ backend'[j].state = "FAILURE"
                      /\ backend'[j].info.exc = "GeminiError"]_vars

\* one job got a response without parts, the other a blocked one
C15_Witness ==
    \E j, k \in TaskIds : answered[j] = <<"no_parts">> /\ answered[k] = <<"blocked">>

\* C16: a task that leaves the scrape without a list, a task whose
\* apify_api_key or gemini_api_key is empty, a task whose generate_content
\* call raised: each ends in FAILURE with a message; and a poll that finds
\* a job in FAILURE answers FAILURE with that message as status
C16_FatalFailures ==
    [][/\ \A j \in TaskIds :
             /\ (pc[j] = "scrape" /\ pc'[j] = "done")
                   => /\ backend'[j].state = "FAILURE"
                      /\ backend'[j].info.msg # <<>>
             /\ (pc[j] = "scrape" /\ args[j][4] = "" /\ pc'[j] # pc[j])
                   => backend'[j].state = "FAILURE"
             /\ (pc[j] = "generate" /\ args[j][3] = "" /\ pc'[j] # pc[j])
                   => /\ backend'[j].state = "FAILURE"
                      /\ backend'[j].info.msg # <<>>
             /\ (/\ Len(answered'[j]) > Len(answered[j])
                 /\ answered'[j][Len(answered'[j])] = "api_error")
                   => /\ backend'[j].state = "FAILURE"
                      /\ backend'[j].info.msg # <<>>
       /\ (/\ http' # http
           /\ http'.route = "status"
           /\ http'.req.task_id \in TaskIds
           /\ backend[http'.req.task_id].state = "FAILURE")
             => /\ http'.body.state = "FAILURE"
                /\ "status" \in http'.body.keys
                /\ http'.body.status = backend[http'.req.task_id].info.msg]_vars

\* a job that was given no Apify key was polled and answered FAILURE with
\* the scraper's message
C16_Witness ==
    /\ http.route = "status"
    /\ http.body.state = "FAILURE"
    /\ http.body.status = <<"An Apify API key is required for profile scraping.">>

\* the message the task stores on entering a stage
StageMessage(state) ==
    CASE state = "SCRAPING" -> "Scraping videos from TikTok profile..."
      [] state = "ANALYZING" -> "Analyzing and transcribing videos..."
      [] state = "GENERATING" -> "Generating new script..."

\* C17 as claimed: a poll that finds a job in SCRAPING, ANALYZING or
\* GENERATING answers the message stored for that stage as status, and a
\* poll that finds it in SUCCESS answers state, a status and the script
C17_PollCarriesStageMessage ==
    /\ (http.route = "status" /\ http.body.state \in {"SCRAPING", "ANALYZING", "GENERATING"})
          => http.body.status = <<StageMessage(http.body.state)>>
    /\ (http.route = "status" /\ http.body.state = "SUCCESS")
          => /\ http.body.keys = {"state", "status", "result"}
             /\ http.body.status # <<>>

\* C20: every unit that got past the construction of its processor has a
\* Whisper model that was loaded for it and for no other unit
C20_OwnModel ==
    /\ \A u \in Urls :
          units[u].at \in {"processor", "download", "find", "transcribe", "finally"}
             => units[u].model # 0
    /\ \A u, v \in Urls :
          (u # v /\ units[u].model # 0) => units[u].model # units[v].model
    /\ models = Cardinality({u \in Urls : units[u].model # 0})

\* two units are transcribing at the same time
C20_Witness ==
    \E u, v \in Urls :
        /\ u # v
        /\ units[u].at = "transcribe" /\ units[v].at = "transcribe"

\* C18 as claimed: main.py exits with status 0 only when it ran to its end
\* or was interrupted by the user, and never when the scrape failed, found
\* no videos, or generation failed
C18_ExitStatus ==
    cli.at = "exited"
        => /\ cli.exit = 0 => (cli.raised = None \/ cli.raised = KeyboardInterrupt)
           /\ cli.urls_to_process = <<>> => cli.exit # 0

\* a text with a script block: an opening tag with a closing tag after it
HasBlock(text) ==
    \E p, q \in DOMAIN text : p < q /\ text[p] = OPEN /\ text[q] = CLOSE

\* C19 as claimed: a text without a script block is returned unchanged;
\* what is returned for a text with one, nested blocks included, holds no
\* script delimiter; and a second application returns what the first did
C19_InnermostBlock ==
    applied # <<>>
        => /\ ~HasBlock(generated) => applied[1] = generated
           /\ HasBlock(generated)
                 => \A p \in DOMAIN applied[1] : applied[1][p] \notin {OPEN, CLOSE}
           /\ Len(applied) > 1 => applied[2] = applied[1]

\* C19 amended: a text without a script block is returned unchanged; for
\* a text with one, what is returned is the text between the first opening
\* tag and the first closing tag after it, without the spaces around it,
\* so it holds no closing tag (an opening tag of a nested block stays in
\* it); and a second application returns what the first did
C19_FirstBlock ==
    applied # <<>>
        => LET out == applied[1] IN
           /\ ~HasBlock(generated) => out = generated
           /\ HasBlock(generated)
                 => /\ \A i \in DOMAIN out : out[i] # CLOSE
                    /\ out # <<>> => (out[1] # SPACE /\ out[Len(out)] # SPACE)
                    /\ \E p, q \in DOMAIN generated :
                          /\ p < q /\ generated[p] = OPEN /\ generated[q] = CLOSE
                          /\ \A i \in 1..(p - 1) : generated[i] # OPEN
                          /\ \A i \in (p + 1)..(q - 1) : generated[i] # CLOSE
                          /\ \E a \in (p + 1)..q, b \in p..(q - 1) :
                                /\ out = SubSeq(generated, a, b)
                                /\ \A i \in ((p + 1)..(a - 1)) \cup ((b + 1)..(q - 1)) :
                                      generated[i] = SPACE
           /\ Len(applied) > 1 => applied[2] = out

\* the function was applied twice to a text with nested blocks, and what
\* it returned holds the inner opening tag
C19_Witness ==
    /\ Len(applied) > 1
    /\ HasBlock(generated)
    /\ \E i \in DOMAIN applied[1] : applied[1][i] = OPEN

\* C21: the state, message and result the backend holds for a job change
\* only in a step of that job's own task while it runs; such a step changes
\* no other job's record, task or units, and no step of a pool unit and no
\* request to a route changes any record
C21_OwnTaskWrites ==
    [][\A j \in TaskIds :
          /\ backend'[j] # backend[j]
                => /\ pc[j] \notin {"unsent", "done"}
                   /\ pc'[j] # pc[j]
                   /\ http' = http
                   /\ \A k \in TaskIds \ {j} :
                         /\ backend'[k] = backend[k]
                         /\ pc'[k] = pc[k]
                         /\ futures'[k] = futures[k]
          /\ (futures'[j] # futures[j] /\ pc'[j] = pc[j]) => backend' = backend]_vars

\* two jobs run side by side, one in ANALYZING with a unit finished and the
\* other in GENERATING, and the first has just been polled
C21_Witness ==
    \E j, k \in TaskIds :
        /\ backend[j].state = "ANALYZING"
        /\ \E i \in DOMAIN futures[j] : futures[j][i].done
        /\ backend[k].state = "GENERATING"
        /\ http.route = "status"
        /\ http.req.task_id = j
        /\ http.body.state = "ANALYZING"

\* the units that have returned a result, success or error
Returned == {u \in Urls : units[u].at = "returned" /\ ~units[u].result.raised}

\* C22: a unit comes to transcribe only from the step in which download_audio
\* returned a path, with that path and no error; when the download fails,
\* in ydl.download or in finding the file, the unit goes to its finally
\* with no path, hears no audio, and returns an error result with no
\* transcription
C22_TranscribeAfterDownload ==
    [][\A u \in Urls :
          /\ (units'[u].at = "transcribe" /\ units[u].at # "transcribe")
                => /\ units[u].at = "find"
                   /\ units'[u].audio_path # None
                   /\ units'[u].exc = None
          /\ (units[u].at \in {"download", "find"} /\ units'[u].at \notin {"download", "find", "transcribe"})
                => /\ units'[u].at = "finally"
                   /\ units'[u].exc # None
                   /\ units'[u].audio_path = None
          /\ (units[u].at = "finally" /\ units[u].audio_path = None /\ units'[u] # units[u])
                => /\ units'[u].at = "returned"
                   /\ units'[u].heard = 0
                   /\ ~units'[u].result.raised
                   /\ units'[u].result.value.error = [str |-> Str(units[u].exc)]
                   /\ units'[u].result.value.transcription = None]_vars

\* a unit whose download failed has returned its error result without
\* having heard any audio, and the other unit has returned a transcription
C22_Witness ==
    \E u, v \in Urls :
        /\ u \in Returned
        /\ units[u].audio_path = None
        /\ units[u].heard = 0
        /\ units[u].result.value.error # None
        /\ units[v].at = "returned"
        /\ units[v].heard # 0
        /\ units[v].result.value.transcription # None

\* C23: every result process_video_worker has returned, success or error,
\* holds under original_url the url the unit was called with, so no two
\* units' results name the same url
C23_ResultNamesItsUrl ==
    /\ \A u \in Returned : units[u].result.value.original_url = u
    /\ \A u, v \in Returned :
          units[u].result.value.original_url = units[v].result.value.original_url => u = v

\* the second unit has returned a transcription and the first an error
\* result, each under its own url
C23_Witness ==
    /\ Returned = Urls
    /\ units[1].result.value.error # None
    /\ units[1].result.value.original_url = 1
    /\ units[2].result.value.transcription # None

\* C26: what process_url gives is fixed before its finally and does not
\* depend on whether the file could be removed: the transcription when
\* there was no error, and else the error of the download or transcription
C26_CleanupKeepsOutcome ==
    [][\A u \in Urls :
          (units[u].at = "finally" /\ units'[u].at = "returned")
             => /\ ~units'[u].result.raised
                /\ units'[u].exc = units[u].exc
                /\ units[u].exc = None
                      => /\ units'[u].result.value.error = None
                         /\ units'[u].result.value.transcription = units[u].transcription
                         /\ units[u].transcription # None
                /\ units[u].exc # None
                      => /\ units'[u].result.value.error = [str |-> Str(units[u].exc)]
                         /\ units'[u].result.value.transcription = None]_vars

\* one unit returned its transcription and another the error of its
\* transcription, both after os.remove had failed
C26_Witness ==
    \E u, v \in Urls :
        /\ units[u].at = "returned"
        /\ units[u].removal = "failed"
        /\ units[u].result.value.transcription # None
        /\ units[v].at = "returned"
        /\ units[v].removal = "failed"
        /\ units[v].result.value.error # None

\* every unit of the batch of job j has returned an error result
AllErrorResults(j) ==
    /\ futures[j] # <<>>
    /\ UnitsThat(j, {"download_error", "transcribe_error"}) = DOMAIN futures[j]

\* the prompt of an empty transcript block followed by the topic
EmptyBlockPrompt(t) == <<"\n\n", "[NEW_TOPIC]:", "\n", t>>

\* C25: a job whose units have all returned error results does not leave
\* ANALYZING for FAILURE: it goes to GENERATING with no block collected and
\* the prompt of an empty block and the topic, and the generation backend,
\* when the client can be built, is called with that prompt
C25_AllFailedStillGenerates ==
    [][\A j \in TaskIds :
          AllErrorResults(j)
             => /\ backend[j].state = "ANALYZING"
                      => backend'[j].state \in {"ANALYZING", "GENERATING"}
                /\ (backend[j].state = "ANALYZING" /\ backend'[j].state = "GENERATING")
                      => /\ past_scripts_data[j] = <<>>
                         /\ user_input'[j] = EmptyBlockPrompt(topic(j))
                /\ (backend[j].state = "GENERATING" /\ pc'[j] # pc[j] /\ gemini_api_key(j) # "")
                      => sent_prompt'[j] = Append(sent_prompt[j], EmptyBlockPrompt(topic(j)))]_vars

\* a job reached SUCCESS on the prompt of an empty block and its topic
C25_Witness ==
    \E j \in TaskIds :
        /\ backend[j].state = "SUCCESS"
        /\ sent_prompt[j] = <<EmptyBlockPrompt("t1")>>

\* C27: in a step taken while a unit of a job has not ended, the job is in
\* ANALYZING and stays there; and, the worker and the pool being fair and
\* every call returning or raising, a job that has started ends in SUCCESS
\* or FAILURE
C27_EndsUnlessAUnitHangs ==
    /\ [][\A j \in TaskIds :
             (\E i \in DOMAIN futures[j] : ~futures[j][i].done)
                => /\ backend[j].state = "ANALYZING"
                   /\ backend'[j].state = "ANALYZING"]_vars
    /\ \A j \in TaskIds :
          (backend[j].state \notin {"PENDING"} \cup Terminal) ~> (backend[j].state \in Terminal)

\* a job waits in the with block for a unit that has not ended, after the
\* result of another unit raised in the loop
C27_Witness ==
    \E j \in TaskIds :
        /\ pc[j] = "unwind"
        /\ \E i \in DOMAIN futures[j] : ~futures[j][i].done
        /\ backend[j].state = "ANALYZING"

\* C28 as claimed: a job with an empty gemini_api_key whose scrape gave urls
\* fails only from GENERATING, with every unit run; a job with an empty
\* apify_api_key fails from SCRAPING with no unit submitted
C28_CredentialCheckedLate ==
    [][\A j \in TaskIds :
          (backend[j].state # "FAILURE" /\ backend'[j].state = "FAILURE" /\ Len(args[j]) = TaskArity)
             => /\ (gemini_api_key(j) = "" /\ urls_to_process[j] # <<>>)
                      => backend[j].state = "GENERATING" /\ Settled(j)
                /\ apify_api_key(j) = ""
                      => backend[j].state = "SCRAPING" /\ futures[j] = <<>>]_vars

\* C29 as claimed: when main.py is run without --keep-audio, no audio of a
\* url it has processed is left in the directory; with --keep-audio the
\* audio of every url it has transcribed is there
C29_AudioDeletedUnlessKept ==
    cli.at \in {"loop", "generate", "exited"} /\ cli.i > 0
        => IF cli.args.keep_audio = [bool |-> TRUE]
           THEN \A n \in 1..(cli.i - 1) : cli.urls_to_process[n] \in cli.output_dir
           ELSE cli.output_dir = {}

\* C30: a call of transcribe_multiple_files with at least one path does
\* not raise, and what it returns has one entry per path, the i-th entry
\* naming the i-th path: a success entry with Whisper's result when the
\* i-th transcription went through, an error entry without a result when
\* it failed, whatever the other files did and in whatever order the pool
\* processes ended
C30_OneEntryPerPath ==
    Len(multi.audio_files) >= 1
        => /\ multi.at # "raised"
           /\ multi.at = "returned"
                 => /\ Len(multi.results) = Len(multi.audio_files)
                    /\ \A i \in DOMAIN multi.audio_files :
                          /\ multi.results[i].audio_path = multi.audio_files[i]
                          /\ multi.results[i].status \in {"success", "error"}
                          /\ multi.results[i].status = "success"
                                => multi.results[i].result = Heard(multi.audio_files[i])
                          /\ multi.results[i].status = "error"
                                => /\ multi.results[i].result = None
                                   /\ "error" \in DOMAIN multi.results[i]

\* three files were given, the second ended first and the first failed:
\* the list returned holds the error entry first and the successes after it
C30_Witness ==
    /\ multi.at = "returned"
    /\ Len(multi.audio_files) = 3
    /\ multi.finished[1] = 2
    /\ multi.results[1].status = "error"
    /\ multi.results[2].status = "success"
    /\ multi.results[3].status = "success"

\* the blocks of the units of a list that gave a transcription, in the
\* order of the list
RECURSIVE BlocksOf(_)
BlocksOf(order) ==
    IF order = <<>> THEN <<>>
    ELSE LET future == loop.futures[Head(order)] IN
         (IF ~future.raised /\ future.value.transcription # None
          THEN <<ScriptBlock(future.value.transcription.text)>>
          ELSE <<>>) \o BlocksOf(Tail(order))

\* C24 as claimed: in the prompt built for the generation backend the
\* transcripts stand in the order in which their units ended, whatever
\* that order was
C24_CompletionOrder ==
    loop.at = "generate"
        => loop.user_input = UserInput(BlocksOf(loop.completed), LoopTopic)

====
